---- MODULE Spec2Model ----
(***************************************************************************)
(* NEXT SYSTEM bot (src/app.py): the four worksheets of the spreadsheet    *)
(* (Offers, Drops, Queue, Proofs), the in-process set elevated_admins and  *)
(* the handlers that read and write them.                                  *)
(*                                                                         *)
(* Scheduling.  Every handler is a coroutine on one asyncio event loop and *)
(* every gspread call is a blocking call: no handler awaits between its    *)
(* first read of a worksheet and its last write.  The store calls of one   *)
(* update therefore run to completion before the next update's handler     *)
(* starts, and each handler is one action.  A gspread call that raises     *)
(* before the handler's first write leaves every worksheet as it was; a    *)
(* call that raises between two writes leaves the first write in place,    *)
(* and those outcomes are part of the actions below.                       *)
(*                                                                         *)
(* receive_proof awaits after its store write: send_to_admins takes the    *)
(* set ADMIN_IDS | elevated_admins when it is called, with no await since  *)
(* the write, and then awaits one delivery per recipient.  The deliveries  *)
(* touch no worksheet and read nothing but that set, so they are one       *)
(* action, send_to_admins, taken from the state receive_proof leaves.      *)
(*                                                                         *)
(* notified is what the last send_to_admins did.  id_column is the id      *)
(* column of a worksheet as get_all_records returns it, the input of       *)
(* _next_id when it is looked at on its own.                               *)
(***************************************************************************)
EXTENDS Integers, Sequences, FiniteSets, TLC

VARIABLES offers, drops, queue, proofs, elevated_admins, today, last,
          notified, id_column

vars == <<offers, drops, queue, proofs, elevated_admins, today, last,
          notified, id_column>>

(* ------------------------------ bounds ------------------------------- *)
MaxQueue == 2
MaxProofs == 2
MaxDay == 1
MaxColumn == 3

(* ------------------------------ inputs ------------------------------- *)
Users == {1, 2}

\* ADMIN_IDS: the ids parsed from the environment at start-up.
ADMIN_IDS == {2}

PIN_CODE == "1588"

\* callback data "offer:<id>" carries any text after the colon
OfferRequests == {"1", "2", "3", "4", "9"}

\* text after "/pin"; "none" stands for a command without arguments
PinArgs == {"none", "", "1588", " 1588 ", "0000"}

Digits == <<"1", "2", "3", "4", "5", "6", "7", "8", "9">>

\* caption tokens: "" is a caption without the key, "x" a non-numeric value
QueueTokens == {"", "x", "1", "2", "9"}
OfferTokens == {"", "1", "2"}

\* callback data "prf:<proof_id>:<action>"
ProofTokens == {"x"} \cup {Digits[i] : i \in 1..(MaxProofs + 1)}
ActionTokens == {"ok", "no", "rep", "zz"}

\* cells of an id column: empty, a text that is no number, and numbers
IdCells == {"", "x", "0", "1", "2", "3"}

(* ------------------------------ helpers ------------------------------ *)
Max(a, b) == IF a >= b THEN a ELSE b

IsNumeric(s) == \E i \in 1..Len(Digits) : Digits[i] = s

\* int(s) for a decimal token
int(s) == CHOOSE i \in 1..Len(Digits) : Digits[i] = s

\* str.strip() on the texts of the model
strip(s) ==
  CASE s = " 1588 " -> "1588"
    [] s = " true " -> "TRUE"
    [] OTHER -> s

\* str.upper() on the texts of the model
upper(s) ==
  CASE s = "yes" -> "YES"
    [] s = "true" -> "TRUE"
    [] s = "false" -> "FALSE"
    [] OTHER -> s

\* what the last handler answered: the handler, its answer and the id the
\* answer carries (the new queue_id, the new or the decided proof_id, 0 when
\* it carries none)
Reply(op, res, id) == [op |-> op, res |-> res, id |-> id]

(* ------------------------------ Sheets ------------------------------- *)
\* The Offers worksheet, maintained by hand outside the bot.
OffersSheet ==
  << [offer_id |-> "1", cap_daily |-> 1, is_active |-> "TRUE"],
     [offer_id |-> "2", cap_daily |-> 2, is_active |-> "yes"],
     [offer_id |-> "3", cap_daily |-> 1, is_active |-> "FALSE"],
     [offer_id |-> "4", cap_daily |-> 0, is_active |-> "TRUE"] >>

IsActiveCell(cell) == upper(strip(cell)) \in {"TRUE", "1", "YES", "Y"}

\* mutant: the is_active column is not looked at
list_active_offers_unfiltered(rows) == rows

list_active_offers(rows) ==
  SelectSeq(rows, LAMBDA r : IsActiveCell(r.is_active))

\* {o["offer_id"]: o for o in ...}.get(offer_id): <<the last active row with
\* the id>>, or << >> when there is none (None in the code)
FindOffer(rows, offer_id) ==
  LET act == list_active_offers(rows)
      hit == {i \in 1..Len(act) : act[i].offer_id = offer_id}
  IN IF hit = {} THEN << >>
     ELSE << act[CHOOSE i \in hit : \A j \in hit : j <= i] >>

\* int(r.get(id_field, 0) or 0) inside try/except, as max() receives it: the
\* number of a numeric cell; 0 for an empty cell ("" or 0); a text that is
\* no number raises, the row is passed over and max_id, never below 0, stays
IdCell(cell) ==
  IF cell = "0" THEN 0
  ELSE IF IsNumeric(cell) THEN int(cell)
  ELSE 0

\* the rows of a worksheet of which only the id column is looked at
IdRows(column) == [i \in 1..Len(column) |-> [id |-> IdCell(column[i])]]

\* mutant: max_id = int(...) in place of max_id = max(max_id, int(...))
MaxId_last_row(rows, id_field) ==
  IF rows = <<>> THEN 0 ELSE rows[Len(rows)][id_field]

RECURSIVE MaxId(_, _)
MaxId(rows, id_field) ==
  IF rows = <<>> THEN 0
  ELSE Max(MaxId(Tail(rows), id_field), Head(rows)[id_field])

\* mutant: the maximum is returned without the + 1
next_id_no_increment(rows, id_field) == MaxId(rows, id_field)

next_id(rows, id_field) == MaxId(rows, id_field) + 1

\* mutant: the scan for an existing row is skipped
ensure_drop_no_scan(rows, tg_user_id) ==
  Append(rows, [tg_user_id |-> tg_user_id, status |-> "active"])

ensure_drop(rows, tg_user_id) ==
  IF \E i \in 1..Len(rows) : rows[i].tg_user_id = tg_user_id
  THEN rows
  ELSE Append(rows, [tg_user_id |-> tg_user_id, status |-> "active"])

CountedStatuses ==
  {"IN_QUEUE", "ASSIGNED", "PROOF_REQUIRED", "PROOF_SENT", "REPEAT_REQUIRED"}

\* mutant: the queued_at date is not compared with today
today_assigned_count_any_day(rows, offer_id, day) ==
  Cardinality({i \in 1..Len(rows) :
                 /\ rows[i].offer_id = offer_id
                 /\ rows[i].status \in CountedStatuses})

today_assigned_count(rows, offer_id, day) ==
  Cardinality({i \in 1..Len(rows) :
                 /\ rows[i].offer_id = offer_id
                 /\ rows[i].queued_at = day
                 /\ rows[i].status \in CountedStatuses})

\* mutant: > in place of >=
CapReached_strict(today_count, cap_daily) == today_count > cap_daily

CapReached(today_count, cap_daily) == today_count >= cap_daily

\* mutant: the new row is written with the schema's next status
join_queue_assigned(rows, tg_user_id, offer_id, now) ==
  Append(rows, [queue_id |-> next_id(rows, "queue_id"),
                tg_user_id |-> tg_user_id,
                offer_id |-> offer_id,
                queued_at |-> now,
                status |-> "ASSIGNED"])

\* mutant: no second row for a user who has a live entry for the offer
join_queue_once(rows, tg_user_id, offer_id, now) ==
  IF \E i \in 1..Len(rows) :
       /\ rows[i].tg_user_id = tg_user_id
       /\ rows[i].offer_id = offer_id
       /\ rows[i].status \notin {"APPROVED", "REJECTED"}
  THEN rows
  ELSE Append(rows, [queue_id |-> next_id(rows, "queue_id"),
                     tg_user_id |-> tg_user_id,
                     offer_id |-> offer_id,
                     queued_at |-> now,
                     status |-> "IN_QUEUE"])

join_queue(rows, tg_user_id, offer_id, now) ==
  Append(rows, [queue_id |-> next_id(rows, "queue_id"),
                tg_user_id |-> tg_user_id,
                offer_id |-> offer_id,
                queued_at |-> now,
                status |-> "IN_QUEUE"])

\* mutant: the row is found but the cell is never written
update_queue_status_no_write(rows, queue_id, status) == rows

\* mutant: a row that is APPROVED or REJECTED is left alone
update_queue_status_skip_terminal(rows, queue_id, status) ==
  LET hit == {i \in 1..Len(rows) : rows[i].queue_id = queue_id}
  IN IF hit = {} THEN rows
     ELSE LET idx == CHOOSE i \in hit : \A j \in hit : i <= j
          IN IF rows[idx].status \in {"APPROVED", "REJECTED"} THEN rows
             ELSE [rows EXCEPT ![idx].status = status]

\* the first row with the id gets the status; no row, no change
update_queue_status(rows, queue_id, status) ==
  LET hit == {i \in 1..Len(rows) : rows[i].queue_id = queue_id}
  IN IF hit = {} THEN rows
     ELSE LET idx == CHOOSE i \in hit : \A j \in hit : i <= j
          IN [rows EXCEPT ![idx].status = status]

\* mutant: the queue_id cell of the new row is left at 0
ProofRow_lost_reference(rows, queue_id, tg_user_id, offer_id) ==
  [proof_id |-> next_id(rows, "proof_id"),
   queue_id |-> 0,
   tg_user_id |-> tg_user_id,
   offer_id |-> offer_id,
   manager_note |-> "",
   decision |-> "PENDING"]

\* the row add_proof appends to Proofs
ProofRow(rows, queue_id, tg_user_id, offer_id) ==
  [proof_id |-> next_id(rows, "proof_id"),
   queue_id |-> queue_id,
   tg_user_id |-> tg_user_id,
   offer_id |-> offer_id,
   manager_note |-> "",
   decision |-> "PENDING"]

\* mutant: the loop does not stop at the first match and the cell of the
\* last row is written
FindProof_last_row(rows, proof_id) ==
  LET hit == {i \in 1..Len(rows) : rows[i].proof_id = proof_id}
  IN IF hit = {} THEN 0 ELSE Len(rows)

\* index of the row decide_proof matches, 0 when there is none
FindProof(rows, proof_id) ==
  LET hit == {i \in 1..Len(rows) : rows[i].proof_id = proof_id}
  IN IF hit = {} THEN 0 ELSE CHOOSE i \in hit : \A j \in hit : i <= j

\* mutant: the "Need repeat" branch writes the wrong status
MirrorStatus_wrong_repeat(decision) ==
  CASE decision = "APPROVED" -> "APPROVED"
    [] decision = "REJECTED" -> "REJECTED"
    [] decision = "REPEAT_REQUIRED" -> "PROOF_REQUIRED"

\* the queue status decide_proof writes for a decision
MirrorStatus(decision) ==
  CASE decision = "APPROVED" -> "APPROVED"
    [] decision = "REJECTED" -> "REJECTED"
    [] decision = "REPEAT_REQUIRED" -> "REPEAT_REQUIRED"

\* mutant: the guard lets every caller through
is_admin_anyone(user_id) == TRUE

is_admin(user_id) == user_id \in ADMIN_IDS \/ user_id \in elevated_admins

\* mutant: any non-empty code is taken for the PIN
pin_ok_nonempty(code) == code # ""

\* cmd_pin's comparison of the trimmed argument
pin_ok(code) == code = PIN_CODE

\* mutant: the set is replaced instead of extended
grant_replace(admins, user_id) == {user_id}

\* elevated_admins.add(user_id)
grant(admins, user_id) == admins \cup {user_id}

\* mutant: an unknown action token is taken for "ok"
DecisionOf_default_approve(action) ==
  CASE action = "no" -> "REJECTED"
    [] action = "rep" -> "REPEAT_REQUIRED"
    [] OTHER -> "APPROVED"

\* {"ok": ..., "no": ..., "rep": ...}.get(action); "" stands for None
DecisionOf(action) ==
  CASE action = "ok" -> "APPROVED"
    [] action = "no" -> "REJECTED"
    [] action = "rep" -> "REPEAT_REQUIRED"
    [] OTHER -> ""

\* before any send_to_admins
NoDelivery == [proof_id |-> 0, attempted |-> {}, delivered |-> {}]

\* mutant: without the try/except the first failing delivery ends the loop
Attempted_until_failure(recipients, fails) ==
  IF recipients \cap fails = {} THEN recipients
  ELSE {a \in recipients : \A f \in recipients \cap fails : a <= f}

\* the recipients the loop of send_to_admins reaches when the deliveries to
\* fails raise: the exception is swallowed and the loop goes on
Attempted(recipients, fails) == recipients

(* ------------------------------- Init -------------------------------- *)
Init ==
  /\ offers = OffersSheet
  /\ drops = <<>>
  /\ queue = <<>>
  /\ proofs = <<>>
  /\ elevated_admins = {}
  /\ today = 0
  /\ last = Reply("init", "", 0)
  /\ notified = NoDelivery
  /\ id_column = << >>

(* ----------------------------- handlers ------------------------------ *)
\* /start
cmd_start(u) ==
  /\ drops' = ensure_drop(drops, u)
  /\ last' = Reply("start", "ok", 0)
  /\ UNCHANGED <<offers, queue, proofs, elevated_admins, today>>
  /\ UNCHANGED <<notified, id_column>>

\* callback "offer:<o>".  The clock is read once for the count and once for
\* the row's queued_at; midnight may pass between the two.
offer_selected(u, o) ==
  LET off == FindOffer(offers, o)
  IN
  /\ UNCHANGED <<offers, drops, proofs, elevated_admins>>
  /\ UNCHANGED <<notified, id_column>>
  /\ IF off = << >>
     THEN /\ last' = Reply("join", "OfferInactive", 0)
          /\ UNCHANGED <<queue, today>>
     ELSE IF CapReached(today_assigned_count(queue, o, today), off[1].cap_daily)
     THEN /\ last' = Reply("join", "CapacityExceeded", 0)
          /\ UNCHANGED <<queue, today>>
     ELSE /\ Len(queue) < MaxQueue
          /\ \E now \in {today, today + 1} :
               /\ now <= MaxDay
               /\ today' = now
               /\ queue' = join_queue(queue, u, o, now)
          /\ last' = Reply("join", "IN_QUEUE", next_id(queue, "queue_id"))

\* a photo with a caption, up to the return of add_proof (the answer "ok" is
\* the proof_id add_proof returned).  _parse_pair gives None for a missing key and ""
\* for "key=", both refused; int() of a non-numeric queue_id raises inside
\* the try block.  store_ok = FALSE: update_queue_status raises after the
\* Proofs row was appended.
receive_proof(u, qtok, otok, store_ok) ==
  /\ UNCHANGED <<offers, drops, elevated_admins, today>>
  /\ UNCHANGED <<notified, id_column>>
  /\ IF qtok = "" \/ otok = ""
     THEN /\ store_ok
          /\ last' = Reply("submit", "InvalidReference", 0)
          /\ UNCHANGED <<queue, proofs>>
     ELSE IF ~IsNumeric(qtok)
     THEN /\ store_ok
          /\ last' = Reply("submit", "Error", 0)
          /\ UNCHANGED <<queue, proofs>>
     ELSE /\ Len(proofs) < MaxProofs
          /\ proofs' = Append(proofs, ProofRow(proofs, int(qtok), u, otok))
          /\ IF store_ok
             THEN /\ queue' = update_queue_status(queue, int(qtok), "PROOF_SENT")
                  /\ last' = Reply("submit", "ok", next_id(proofs, "proof_id"))
             ELSE /\ UNCHANGED queue
                  /\ last' = Reply("submit", "Error", 0)

\* the rest of receive_proof after add_proof returned the proof_id
\* last.id: the notification of the admins and the answer to the sender.
\* fails: the recipients whose delivery raises.
send_to_admins(fails) ==
  LET recipients == ADMIN_IDS \cup elevated_admins
      reached == Attempted(recipients, fails)
  IN
  /\ last.op = "submit" /\ last.res = "ok"
  /\ notified' = [proof_id |-> last.id, attempted |-> reached,
                  delivered |-> reached \ fails]
  /\ last' = Reply("submit",
                   IF reached = recipients THEN "received" ELSE "Error",
                   last.id)
  /\ UNCHANGED <<offers, drops, queue, proofs, elevated_admins, today>>
  /\ UNCHANGED id_column

\* /pin <args>
cmd_pin(u, args) ==
  LET code == strip(IF args = "none" THEN "" ELSE args)
  IN
  /\ UNCHANGED <<offers, drops, queue, proofs, today>>
  /\ UNCHANGED <<notified, id_column>>
  /\ IF code = ""
     THEN /\ last' = Reply("pin", "usage", 0)
          /\ UNCHANGED elevated_admins
     ELSE IF pin_ok(code)
     THEN /\ elevated_admins' = grant(elevated_admins, u)
          /\ last' = Reply("pin", "granted", 0)
     ELSE /\ last' = Reply("pin", "wrong", 0)
          /\ UNCHANGED elevated_admins

\* Sheets.decide_proof on a matched row idx; store_ok = FALSE:
\* update_queue_status raises after the decision cell was written.
decide_proof(idx, decision, store_ok) ==
  /\ proofs' = [proofs EXCEPT ![idx].decision = decision]
  /\ IF store_ok
     THEN queue' = update_queue_status(queue, proofs[idx].queue_id,
                                       MirrorStatus(decision))
     ELSE UNCHANGED queue

\* callback "prf:<ptok>:<action>"
cb_proof_action(u, ptok, action, store_ok) ==
  LET decision == DecisionOf(action)
      pid == IF IsNumeric(ptok) THEN int(ptok) ELSE 0
      idx == FindProof(proofs, pid)
  IN
  /\ UNCHANGED <<offers, drops, elevated_admins, today>>
  /\ UNCHANGED <<notified, id_column>>
  /\ IF ~is_admin(u)
     THEN /\ store_ok
          /\ last' = Reply("decide", "Unauthorized", 0)
          /\ UNCHANGED <<queue, proofs>>
     ELSE IF ~IsNumeric(ptok)
     THEN /\ store_ok
          /\ last' = Reply("decide", "BadData", 0)
          /\ UNCHANGED <<queue, proofs>>
     ELSE IF decision = ""
     THEN /\ store_ok
          /\ last' = Reply("decide", "UnknownAction", 0)
          /\ UNCHANGED <<queue, proofs>>
     ELSE IF idx = 0
     THEN /\ store_ok
          /\ last' = Reply("decide", "NotFound", 0)
          /\ UNCHANGED <<queue, proofs>>
     ELSE /\ decide_proof(idx, decision, store_ok)
          /\ last' = Reply("decide", IF store_ok THEN decision ELSE "Error", pid)

\* _next_id on the id column
scan_next_id ==
  /\ last' = Reply("next_id", "", next_id(IdRows(id_column), "id"))
  /\ UNCHANGED <<offers, drops, queue, proofs, elevated_admins, today>>
  /\ UNCHANGED <<notified, id_column>>

\* append_row of a row with the id _next_id returned
append_id ==
  /\ last.op = "next_id"
  /\ Len(id_column) < MaxColumn
  /\ id_column' = Append(id_column, Digits[last.id])
  /\ last' = Reply("append_row", "", last.id)
  /\ UNCHANGED <<offers, drops, queue, proofs, elevated_admins, today>>
  /\ UNCHANGED notified

\* the UTC date changes
Tick ==
  /\ today < MaxDay
  /\ today' = today + 1
  /\ last' = Reply("tick", "", 0)
  /\ UNCHANGED <<offers, drops, queue, proofs, elevated_admins>>
  /\ UNCHANGED <<notified, id_column>>

Next ==
  \/ \E u \in Users : cmd_start(u)
  \/ \E u \in Users, o \in OfferRequests : offer_selected(u, o)
  \/ \E u \in Users, q \in QueueTokens, o \in OfferTokens, ok \in BOOLEAN :
       receive_proof(u, q, o, ok)
  \/ \E fails \in SUBSET Users : send_to_admins(fails)
  \/ \E u \in Users, a \in PinArgs : cmd_pin(u, a)
  \/ \E u \in Users, p \in ProofTokens, a \in ActionTokens, ok \in BOOLEAN :
       cb_proof_action(u, p, a, ok)
  \/ Tick

\* the whole bot: every handler on every input
Spec == Init /\ [][Next]_vars

(***************************************************************************)
(* The specifications the properties are checked under.  Each one is Spec  *)
(* with the handlers' inputs drawn from smaller sets, so that TLC visits   *)
(* every state.  What a restriction leaves out does not touch what the     *)
(* properties checked under it read: cmd_start writes Drops only, which no *)
(* other handler reads; cmd_pin writes elevated_admins only, which is read *)
(* by is_admin alone.                                                      *)
(***************************************************************************)

\* admission alone: joins by every user on every offer id, and the clock
NextJoins ==
  \/ \E u \in Users, o \in OfferRequests : offer_selected(u, o)
  \/ Tick

SpecJoins == Init /\ [][NextJoins]_vars

\* admission with entries that leave the count: the joins and the clock of
\* NextJoins, proofs for entry 1 and decisions on the first proof
NextAdmission ==
  \/ \E u \in Users, o \in OfferRequests : offer_selected(u, o)
  \/ Tick
  \/ receive_proof(1, "1", "1", TRUE)
  \/ \E a \in {"ok", "rep"} : cb_proof_action(2, "1", a, TRUE)

SpecAdmission == Init /\ [][NextAdmission]_vars

\* the moderation workflow: joins of both users on offer "1" (cap 1), proofs
\* of user 1 for entries 1 and 2 (entries that may not exist yet, or be the
\* other user's), decisions of the static admin on every proof
NextWorkflow ==
  \/ \E u \in Users : offer_selected(u, "1")
  \/ \E q \in {"1", "2"} : receive_proof(1, q, "1", TRUE)
  \/ \E p \in ProofTokens \ {"x"}, a \in {"ok", "no", "rep"} :
       cb_proof_action(2, p, a, TRUE)

SpecWorkflow == Init /\ [][NextWorkflow]_vars

\* the identity gate: /pin with every argument, and decisions on the proofs of
\* one queue entry
NextGate ==
  \/ \E u \in Users, a \in PinArgs : cmd_pin(u, a)
  \/ offer_selected(1, "1")
  \/ receive_proof(1, "1", "1", TRUE)
  \/ \E u \in Users, p \in ProofTokens \ {"x"}, a \in {"ok", "no", "rep"} :
       cb_proof_action(u, p, a, TRUE)

SpecGate == Init /\ [][NextGate]_vars

\* registration, interleaved with joins, /pin and the clock
NextDrops ==
  \/ \E u \in Users : cmd_start(u)
  \/ \E u \in Users : offer_selected(u, "2")
  \/ \E u \in Users : cmd_pin(u, "1588")
  \/ Tick

SpecDrops == Init /\ [][NextDrops]_vars

\* refusals: joins on an active, an inactive and an unknown offer, captions
\* with and without their keys, review buttons with every token
NextRefusals ==
  \/ \E o \in {"1", "3", "9"} : offer_selected(1, o)
  \/ \E q \in {"", "1"}, o \in {"", "1"} : receive_proof(1, q, o, TRUE)
  \/ \E p \in ProofTokens, a \in ActionTokens : cb_proof_action(2, p, a, TRUE)

SpecRefusals == Init /\ [][NextRefusals]_vars

\* the five operations on one entry, with the store failing or not between
\* the two writes of a submit and of a decision
NextCore ==
  \/ cmd_start(1)
  \/ cmd_pin(1, "1588")
  \/ offer_selected(1, "1")
  \/ \E ok \in BOOLEAN : receive_proof(1, "1", "1", ok)
  \/ \E p \in ProofTokens \ {"x"}, a \in {"ok", "no", "rep"}, ok \in BOOLEAN :
       cb_proof_action(2, p, a, ok)

SpecCore == Init /\ [][NextCore]_vars

\* notification: proofs sent while the set of admins grows, every subset of
\* the deliveries failing
NextNotify ==
  \/ \E u \in Users : cmd_pin(u, "1588")
  \/ offer_selected(1, "2")
  \/ \E q \in {"1", "2"} : receive_proof(1, q, "2", TRUE)
  \/ \E fails \in SUBSET Users : send_to_admins(fails)

SpecNotify == Init /\ [][NextNotify]_vars

\* capacity: joins of both users on offers "1" and "2", the clock, proofs for
\* entry 1 and approvals and rejections of the first proof
NextCapacity ==
  \/ \E u \in Users, o \in {"1", "2"} : offer_selected(u, o)
  \/ Tick
  \/ receive_proof(1, "1", "1", TRUE)
  \/ \E a \in {"ok", "no"} : cb_proof_action(2, "1", a, TRUE)

SpecCapacity == Init /\ [][NextCapacity]_vars

\* _next_id alone, on every id column of up to MaxColumn cells
InitIds ==
  /\ offers = OffersSheet
  /\ drops = <<>>
  /\ queue = <<>>
  /\ proofs = <<>>
  /\ elevated_admins = {}
  /\ today = 0
  /\ last = Reply("init", "", 0)
  /\ notified = NoDelivery
  /\ id_column \in UNION {[1..n -> IdCells] : n \in 0..MaxColumn}

NextIds ==
  \/ scan_next_id
  \/ append_id

SpecIds == InitIds /\ [][NextIds]_vars

\* the order of the two writes: joins on offer "1", proofs for entries 1 and
\* 2 whether or not they exist, rejections and repeats of every proof, the
\* store failing or not between the two writes of a submit and of a decision
NextOrdering ==
  \/ offer_selected(1, "1")
  \/ \E q \in {"1", "2"}, ok \in BOOLEAN : receive_proof(1, q, "1", ok)
  \/ \E p \in ProofTokens \ {"x"}, a \in {"no", "rep"}, ok \in BOOLEAN :
       cb_proof_action(2, p, a, ok)

SpecOrdering == Init /\ [][NextOrdering]_vars

(* ------------------------------ properties --------------------------- *)
Decisions == {"APPROVED", "REJECTED", "REPEAT_REQUIRED"}

\* rows of a worksheet whose field has the value
RowsWith(rows, field, value) == {i \in 1..Len(rows) : rows[i][field] = value}

\* the entries of an offer that are queued on the day and not terminal
LiveToday(offer_id) ==
  {i \in 1..Len(queue) :
     /\ queue[i].offer_id = offer_id
     /\ queue[i].queued_at = today
     /\ queue[i].status \notin {"APPROVED", "REJECTED"}}

\* C1: under any sequence of join calls, the number of entries of an offer
\* that are queued today and not terminal never exceeds the offer's daily cap.
C1_CapNeverExceeded ==
  \A k \in 1..Len(offers) :
    Cardinality(LiveToday(offers[k].offer_id)) <= offers[k].cap_daily

\* C1 witness: offer "2" (cap 2) is full and a further join was refused.
C1_Witness ==
  /\ last = Reply("join", "CapacityExceeded", 0)
  /\ Cardinality(LiveToday("2")) = 2

\* C2: no two Queue rows share a queue_id, no two Proofs rows share a
\* proof_id, and the largest id of either worksheet never decreases.
C2_IdsUniqueAndMonotone ==
  /\ [](/\ \A i, j \in 1..Len(queue) :
             queue[i].queue_id = queue[j].queue_id => i = j
        /\ \A i, j \in 1..Len(proofs) :
             proofs[i].proof_id = proofs[j].proof_id => i = j)
  /\ [][/\ MaxId(queue', "queue_id") >= MaxId(queue, "queue_id")
        /\ MaxId(proofs', "proof_id") >= MaxId(proofs, "proof_id")]_vars

\* C2 witness: both worksheets hold two rows, the second allocated after the
\* first.
C2_Witness ==
  /\ Len(queue) >= 2 /\ queue[2].queue_id = 2
  /\ Len(proofs) >= 2 /\ proofs[2].proof_id = 2

C4_TerminalIsFinal ==
  [][\A i \in 1..Len(queue) :
       queue[i].status \in {"APPROVED", "REJECTED"}
         => queue'[i].status = queue[i].status]_vars

\* the Queue and Proofs rows of the end-to-end scenario: A = user 1,
\* B = user 2 (the reviewer), offer "1" with cap 1
ScenQueue(day, status) ==
  << [queue_id |-> 1, tg_user_id |-> 1, offer_id |-> "1", queued_at |-> day,
      status |-> status] >>

ScenProof(proof_id, decision) ==
  [proof_id |-> proof_id, queue_id |-> 1, tg_user_id |-> 1, offer_id |-> "1",
   manager_note |-> "", decision |-> decision]

\* C9: the scenario as a chain of steps, each from the state the previous one
\* leaves: A joins -> IN_QUEUE; B joins on the same day -> CapacityExceeded,
\* nothing appended; A submits -> PROOF_SENT, proof 1 PENDING; the reviewer
\* decides "Need repeat" -> REPEAT_REQUIRED; A submits again -> PROOF_SENT,
\* proof 2 PENDING; the reviewer approves proof 2 -> APPROVED.
C9_EndToEnd ==
  [][/\ (queue = << >> /\ proofs = << >> /\ offer_selected(1, "1"))
          => /\ last' = Reply("join", "IN_QUEUE", 1)
             /\ queue' = ScenQueue(today', "IN_QUEUE") /\ proofs' = << >>
     /\ (queue = ScenQueue(today, "IN_QUEUE") /\ proofs = << >>
           /\ offer_selected(2, "1"))
          => /\ last' = Reply("join", "CapacityExceeded", 0)
             /\ queue' = queue /\ proofs' = proofs
     /\ (queue = ScenQueue(today, "IN_QUEUE") /\ proofs = << >>
           /\ receive_proof(1, "1", "1", TRUE))
          => /\ queue' = ScenQueue(today, "PROOF_SENT")
             /\ proofs' = << ScenProof(1, "PENDING") >>
     /\ (queue = ScenQueue(today, "PROOF_SENT")
           /\ proofs = << ScenProof(1, "PENDING") >>
           /\ cb_proof_action(2, "1", "rep", TRUE))
          => /\ queue' = ScenQueue(today, "REPEAT_REQUIRED")
             /\ proofs' = << ScenProof(1, "REPEAT_REQUIRED") >>
     /\ (queue = ScenQueue(today, "REPEAT_REQUIRED")
           /\ proofs = << ScenProof(1, "REPEAT_REQUIRED") >>
           /\ receive_proof(1, "1", "1", TRUE))
          => /\ queue' = ScenQueue(today, "PROOF_SENT")
             /\ proofs' = << ScenProof(1, "REPEAT_REQUIRED"),
                             ScenProof(2, "PENDING") >>
     /\ (queue = ScenQueue(today, "PROOF_SENT")
           /\ proofs = << ScenProof(1, "REPEAT_REQUIRED"),
                          ScenProof(2, "PENDING") >>
           /\ cb_proof_action(2, "2", "ok", TRUE))
          => /\ queue' = ScenQueue(today, "APPROVED")
             /\ proofs' = << ScenProof(1, "REPEAT_REQUIRED"),
                             ScenProof(2, "APPROVED") >>]_vars

\* C9 witness: the state the scenario ends in, right after the approval.
C9_Witness ==
  /\ last = Reply("decide", "APPROVED", 2)
  /\ queue = ScenQueue(today, "APPROVED")
  /\ proofs = << ScenProof(1, "REPEAT_REQUIRED"), ScenProof(2, "APPROVED") >>

\* C5: Drops never holds two rows with one tg_user_id; after a registration
\* the user has exactly one row, and a registration of a user who has a row
\* leaves Drops as it was.
C5_RegistrationIdempotent ==
  /\ [](\A u \in Users : Cardinality(RowsWith(drops, "tg_user_id", u)) <= 1)
  /\ [][\A u \in Users : cmd_start(u) =>
          /\ Cardinality(RowsWith(drops', "tg_user_id", u)) = 1
          /\ (RowsWith(drops, "tg_user_id", u) # {} => drops' = drops)]_vars

\* C5 witness: both users are registered, the last handler was /start.
C5_Witness ==
  /\ last.op = "start"
  /\ \A u \in Users : Cardinality(RowsWith(drops, "tg_user_id", u)) = 1

\* the /pin arguments that present the configured PIN (bare, or padded with
\* blanks that the handler trims); every other argument is a wrong secret
CorrectPinArgs == {"1588", " 1588 "}

Privileged(admins, x) == x \in ADMIN_IDS \/ x \in admins

\* C6: /pin with a secret other than the PIN, the empty one included, leaves
\* elevated_admins and every user's privilege as they were.
C6_WrongSecretNeverElevates ==
  [][last'.op = "pin" =>
       \A u \in Users, a \in PinArgs \ CorrectPinArgs :
         cmd_pin(u, a) =>
           /\ elevated_admins' = elevated_admins
           /\ last'.res \in {"usage", "wrong"}
           /\ \A x \in Users :
                Privileged(elevated_admins', x) <=> Privileged(elevated_admins, x)]_vars

\* C6 witness: a wrong secret was just refused and nobody is elevated.
C6_Witness ==
  /\ last = Reply("pin", "wrong", 0)
  /\ elevated_admins = {}
  /\ ~is_admin(1)

\* C7: no step removes a user from elevated_admins, a /pin with the PIN makes
\* its caller privileged, and the users of ADMIN_IDS are privileged in
\* every state.
C7_PrivilegeMonotone ==
  /\ [](\A x \in ADMIN_IDS : is_admin(x))
  /\ [][elevated_admins \subseteq elevated_admins']_vars
  /\ [][last'.op = "pin" =>
          \A u \in Users, a \in CorrectPinArgs :
            cmd_pin(u, a) => Privileged(elevated_admins', u)]_vars

\* C7 witness: both users were elevated by /pin, one after the other, and
\* then a /pin with a wrong secret was refused; both are still elevated.
C7_Witness ==
  /\ last = Reply("pin", "wrong", 0)
  /\ elevated_admins = {1, 2}
  /\ is_admin(1)

\* C8: a review button pressed by a caller who is not privileged is answered
\* "no rights" and changes no Proofs row and no Queue row; every step that
\* changes a proof's decision, or moves a queue status to APPROVED, REJECTED
\* or REPEAT_REQUIRED, is a review action of a caller privileged at that step.
C8_DecisionsNeedPrivilege ==
  [][/\ last'.op = "decide" =>
          \/ /\ last'.res = "Unauthorized"
             /\ proofs' = proofs
             /\ queue' = queue
          \/ \A u \in Users :
               ~Privileged(elevated_admins, u) =>
                 \A p \in ProofTokens, a \in ActionTokens, ok \in BOOLEAN :
                   ~cb_proof_action(u, p, a, ok)
     /\ ( \/ \E k \in 1..Len(proofs) : proofs'[k].decision # proofs[k].decision
          \/ \E i \in 1..Len(queue) :
               /\ queue'[i].status \in Decisions
               /\ queue'[i].status # queue[i].status )
          => /\ last'.op = "decide"
             /\ \E u \in Users, p \in ProofTokens, a \in ActionTokens,
                   ok \in BOOLEAN :
                  /\ Privileged(elevated_admins, u)
                  /\ cb_proof_action(u, p, a, ok)]_vars

\* C8 witness: a proof is pending, its entry is PROOF_SENT, user 1 is not
\* privileged and a review action was just refused.
C8_Witness ==
  /\ last = Reply("decide", "Unauthorized", 0)
  /\ ~is_admin(1)
  /\ \E k \in 1..Len(proofs), i \in 1..Len(queue) :
       /\ proofs[k].decision = "PENDING"
       /\ queue[i].queue_id = proofs[k].queue_id
       /\ queue[i].status = "PROOF_SENT"

\* the Offers rows with the id whose is_active cell is a truthy text
ActiveRows(offer_id) ==
  {k \in 1..Len(offers) :
     offers[k].offer_id = offer_id /\ offers[k].is_active \in {"TRUE", "yes"}}

\* capacityRemaining: the daily cap less the entries queued today that are
\* not terminal
CapacityRemaining(offer_id) ==
  offers[CHOOSE k \in ActiveRows(offer_id) : TRUE].cap_daily
    - Cardinality(LiveToday(offer_id))

\* C10: a join is answered OfferInactive when no active offer has the id;
\* otherwise CapacityExceeded when the remaining capacity is <= 0; otherwise
\* it appends exactly one row with the next queue_id, the caller, the offer
\* and IN_QUEUE, and answers with that queue_id.  A refusal appends nothing.
C10_JoinOutcomes ==
  [][last'.op = "join" =>
       \A u \in Users, o \in OfferRequests :
         offer_selected(u, o) =>
           IF ActiveRows(o) = {}
           THEN last' = Reply("join", "OfferInactive", 0) /\ queue' = queue
           ELSE IF CapacityRemaining(o) <= 0
           THEN last' = Reply("join", "CapacityExceeded", 0) /\ queue' = queue
           ELSE /\ last' = Reply("join", "IN_QUEUE", MaxId(queue, "queue_id") + 1)
                /\ Len(queue') = Len(queue) + 1
                /\ SubSeq(queue', 1, Len(queue)) = queue
                /\ queue'[Len(queue')].queue_id = MaxId(queue, "queue_id") + 1
                /\ queue'[Len(queue')].tg_user_id = u
                /\ queue'[Len(queue')].offer_id = o
                /\ queue'[Len(queue')].status = "IN_QUEUE"]_vars

\* C10 witness: a second join on offer "1" (cap 1) succeeded on the day of the
\* first entry, which is APPROVED and no longer counted.
C10_Witness ==
  /\ last = Reply("join", "IN_QUEUE", 2)
  /\ Len(queue) = 2
  /\ queue[1].offer_id = "1" /\ queue[2].offer_id = "1"
  /\ queue[1].queued_at = queue[2].queued_at
  /\ queue[1].status = "APPROVED"

\* the four worksheets are row for row what they were
StoreUnchanged ==
  /\ offers' = offers /\ drops' = drops /\ queue' = queue /\ proofs' = proofs

\* C11: a join on an offer that is not active or has no capacity left, a
\* review action with a malformed proof id, an unknown action token or a
\* proof id no Proofs row has, and a photo whose caption lacks queue_id or
\* offer_id are each refused and leave every row of Offers, Drops, Queue and
\* Proofs as it was.
C11_RefusalsChangeNothing ==
  [][/\ last'.op = "join" =>
          \A u \in Users, o \in OfferRequests :
            (/\ offer_selected(u, o)
             /\ (ActiveRows(o) = {} \/ CapacityRemaining(o) <= 0))
              => /\ StoreUnchanged
                 /\ last'.res \in {"OfferInactive", "CapacityExceeded"}
     /\ last'.op = "decide" =>
          \A u \in Users, p \in ProofTokens, a \in ActionTokens, ok \in BOOLEAN :
            (/\ cb_proof_action(u, p, a, ok)
             /\ \/ p = "x"
                \/ a \notin {"ok", "no", "rep"}
                \/ \A k \in 1..Len(proofs) : Digits[proofs[k].proof_id] # p)
              => /\ StoreUnchanged
                 /\ last'.res \in {"Unauthorized", "BadData", "UnknownAction",
                                   "NotFound"}
     /\ last'.op = "submit" =>
          \A u \in Users, q \in QueueTokens, o \in OfferTokens, ok \in BOOLEAN :
            (receive_proof(u, q, o, ok) /\ (q = "" \/ o = ""))
              => /\ StoreUnchanged
                 /\ last'.res = "InvalidReference"]_vars

\* C11 witness: a review action on a proof id that no row has was refused
\* while a pending proof and its PROOF_SENT entry are in the store.
C11_Witness ==
  /\ last = Reply("decide", "NotFound", 0)
  /\ Len(proofs) = 1 /\ proofs[1].decision = "PENDING"
  /\ Len(queue) = 1 /\ queue[1].status = "PROOF_SENT"

\* C12: a photo whose caption carries a numeric queue_id n and an offer_id
\* appends exactly one Proofs row, with a proof_id no row had, n, the sender,
\* the offer_id and PENDING, whether or not a Queue row has the id n; a Queue
\* row with the id n gets PROOF_SENT whatever its status and owner were, no
\* other Queue row changes, and no Queue row is added.
C12_SubmitNoReferentialCheck ==
  [][last'.op = "submit" =>
       \A u \in Users, n \in 1..Len(Digits), o \in OfferTokens \ {""} :
         receive_proof(u, Digits[n], o, TRUE) =>
           /\ last'.res = "ok"
           /\ Len(proofs') = Len(proofs) + 1
           /\ SubSeq(proofs', 1, Len(proofs)) = proofs
           /\ \A k \in 1..Len(proofs) :
                proofs'[Len(proofs')].proof_id > proofs[k].proof_id
           /\ proofs'[Len(proofs')].proof_id = last'.id
           /\ proofs'[Len(proofs')].queue_id = n
           /\ proofs'[Len(proofs')].tg_user_id = u
           /\ proofs'[Len(proofs')].offer_id = o
           /\ proofs'[Len(proofs')].decision = "PENDING"
           /\ Len(queue') = Len(queue)
           /\ \A i \in 1..Len(queue) :
                queue'[i] = IF queue[i].queue_id = n
                            THEN [queue[i] EXCEPT !.status = "PROOF_SENT"]
                            ELSE queue[i]]_vars

\* C12 witness: user 1 sent a second proof for entry 1, which user 2 owns and
\* which was APPROVED on the first proof; the entry is PROOF_SENT again.
C12_Witness ==
  /\ last = Reply("submit", "ok", 2)
  /\ Len(queue) >= 1 /\ queue[1].tg_user_id = 2 /\ queue[1].status = "PROOF_SENT"
  /\ Len(proofs) = 2 /\ proofs[1].decision = "APPROVED"
  /\ proofs[2].tg_user_id = 1 /\ proofs[2].queue_id = queue[1].queue_id

\* C13: every step that changes a proof's decision leaves the state in which
\* every queue entry with the proof's queue_id has the status of the decision:
\* no state a later handler or a reader of the spreadsheet sees has the
\* decision written and the entry not yet updated.
C13_DecideAtomic ==
  [][\A k \in 1..Len(proofs) :
       proofs'[k].decision # proofs[k].decision =>
         \A i \in RowsWith(queue', "queue_id", proofs[k].queue_id) :
           queue'[i].status = proofs'[k].decision]_vars

\* the queue status that corresponds to a decision
StatusOfDecision(decision) ==
  IF decision = "PENDING" THEN "PROOF_SENT" ELSE decision

\* C14: in every state, a queue entry that has proofs has the status that
\* corresponds to the decision of the proof submitted last for it.
C14_LockStep ==
  \A i \in 1..Len(queue) :
    LET mine == RowsWith(proofs, "queue_id", queue[i].queue_id)
    IN mine # {} =>
         LET latest == CHOOSE k \in mine : \A j \in mine : j <= k
         IN queue[i].status = StatusOfDecision(proofs[latest].decision)

\* C15: once add_proof has returned, the notification is due whichever
\* deliveries will fail; it attempts every user privileged at that moment,
\* reaches all of them but those whose delivery fails, answers the sender
\* that the proof was received, and leaves Proofs and Queue as the submit
\* wrote them.
C15_NotifyIsolation ==
  /\ [](last.op = "submit" /\ last.res = "ok" =>
          \A fails \in SUBSET Users : ENABLED send_to_admins(fails))
  /\ [][\A fails \in SUBSET Users :
          send_to_admins(fails) =>
            /\ notified'.proof_id = last.id
            /\ notified'.attempted = {x \in Users : Privileged(elevated_admins, x)}
            /\ notified'.delivered = notified'.attempted \ fails
            /\ last' = Reply("submit", "received", last.id)
            /\ proofs' = proofs /\ queue' = queue
            /\ RowsWith(proofs', "proof_id", last.id) # {}]_vars

\* C15 witness: both users were privileged when proof 1 was written, the
\* delivery to user 1 failed, user 2 was reached and the sender was answered.
C15_Witness ==
  /\ last = Reply("submit", "received", 1)
  /\ notified = [proof_id |-> 1, attempted |-> {1, 2}, delivered |-> {2}]
  /\ Len(proofs) = 1 /\ proofs[1].decision = "PENDING"

\* C16: after any sequence of /start, /pin, joins, proofs and decisions, no
\* queue entry is ASSIGNED or PROOF_REQUIRED: every status is IN_QUEUE,
\* PROOF_SENT, REPEAT_REQUIRED, APPROVED or REJECTED.
C16_UnreachedStatuses ==
  \A i \in 1..Len(queue) :
    /\ queue[i].status \notin {"ASSIGNED", "PROOF_REQUIRED"}
    /\ queue[i].status \in {"IN_QUEUE", "PROOF_SENT", "REPEAT_REQUIRED",
                             "APPROVED", "REJECTED"}

\* C16 witness: user 1 registered, was elevated, joined and sent a proof, and
\* the entry has just been sent back for a repeat.
C16_Witness ==
  /\ last = Reply("decide", "REPEAT_REQUIRED", 1)
  /\ Len(drops) = 1 /\ elevated_admins = {1}
  /\ Len(queue) = 1 /\ queue[1].status = "REPEAT_REQUIRED"

\* C17: a review action adds no Proofs row and no Queue row and leaves Offers
\* and Drops alone; of the Proofs rows only the one with the decided proof_id
\* may differ, and only in its decision; of the Queue rows only those with
\* that proof's queue_id may differ, and only in their status.
C17_DecideFrame ==
  [][last'.op = "decide" =>
       /\ offers' = offers /\ drops' = drops
       /\ Len(proofs') = Len(proofs) /\ Len(queue') = Len(queue)
       /\ \A k \in 1..Len(proofs) :
            IF proofs[k].proof_id = last'.id
            THEN proofs'[k] = [proofs[k] EXCEPT !.decision = proofs'[k].decision]
            ELSE proofs'[k] = proofs[k]
       /\ \A i \in 1..Len(queue) :
            IF \E k \in RowsWith(proofs, "proof_id", last'.id) :
                 proofs[k].queue_id = queue[i].queue_id
            THEN queue'[i] = [queue[i] EXCEPT !.status = queue'[i].status]
            ELSE queue'[i] = queue[i]]_vars

\* C17 witness: of two proofs of entry 1 the first was just sent back for a
\* repeat; there are still two proofs, the second PENDING, and one entry.
C17_Witness ==
  /\ last = Reply("decide", "REPEAT_REQUIRED", 1)
  /\ Len(proofs) = 2 /\ proofs[1].decision = "REPEAT_REQUIRED"
  /\ proofs[2].decision = "PENDING" /\ proofs[2].queue_id = proofs[1].queue_id
  /\ Len(queue) = 1 /\ queue[1].status = "REPEAT_REQUIRED"

\* what offer_selected compares with 0: the cap of the active offer less the
\* count, for the Queue rows and the date given
RemainingIn(rows, offer_id, day) ==
  FindOffer(offers, offer_id)[1].cap_daily
    - today_assigned_count(rows, offer_id, day)

\* the decided proof's entries that are queued today
DecidedToday ==
  {i \in 1..Len(queue) :
     /\ queue[i].queued_at = today
     /\ \E k \in RowsWith(proofs, "proof_id", last'.id) :
          proofs[k].queue_id = queue[i].queue_id}

LiveEntries(rows, tg_user_id, offer_id) ==
  {i \in 1..Len(rows) :
     /\ rows[i].tg_user_id = tg_user_id
     /\ rows[i].offer_id = offer_id
     /\ rows[i].status \notin {"APPROVED", "REJECTED"}}

\* C19: a join by a user who has a live entry for the offer, on an active
\* offer with capacity left, is accepted: it appends a further IN_QUEUE row of
\* that user for that offer and keeps the user's earlier entries.
C19_SecondEntryAccepted ==
  [][last'.op = "join" =>
       \A u \in Users, o \in OfferRequests :
         (/\ LiveEntries(queue, u, o) # {}
          /\ ActiveRows(o) # {}
          /\ CapacityRemaining(o) > 0
          /\ offer_selected(u, o))
           => /\ last'.res = "IN_QUEUE"
              /\ Len(queue') = Len(queue) + 1
              /\ SubSeq(queue', 1, Len(queue)) = queue
              /\ LiveEntries(queue', u, o) =
                   LiveEntries(queue, u, o) \cup {Len(queue')}]_vars

\* C19 witness: user 1 holds two live entries for offer "2" (cap 2), the
\* second one just accepted on the day of the first.
C19_Witness ==
  /\ last = Reply("join", "IN_QUEUE", 2)
  /\ LiveEntries(queue, 1, "2") = {1, 2}
  /\ queue[1].queued_at = queue[2].queued_at

DecimalText == <<"0", "1", "2", "3", "4", "5", "6", "7", "8", "9">>

\* the cells of the id column that hold a number, and the number of a cell
NumericCells == {i \in 1..Len(id_column) :
                   \E n \in 0..9 : DecimalText[n + 1] = id_column[i]}

NumberOf(cell) == CHOOSE n \in 0..9 : DecimalText[n + 1] = cell

\* C20: _next_id returns 1 when no cell of the id column holds a number and
\* otherwise the largest number of the column plus one, empty cells and
\* texts that are no numbers passed over; the value is greater than every
\* number in the column; and while nothing is appended a further call
\* returns the same value.
C20_NextIdIsMaxPlusOne ==
  last.op = "next_id" =>
    /\ NumericCells = {} => last.id = 1
    /\ NumericCells # {} =>
         \E i \in NumericCells :
           /\ \A j \in NumericCells :
                NumberOf(id_column[j]) <= NumberOf(id_column[i])
           /\ last.id = NumberOf(id_column[i]) + 1
    /\ \A j \in NumericCells : last.id > NumberOf(id_column[j])
    /\ next_id(IdRows(id_column), "id") = last.id

\* C20 witness: the column holds an empty cell, the number 2 and a text that
\* is no number, and _next_id has returned 3.
C20_Witness ==
  /\ last = Reply("next_id", "", 3)
  /\ id_column = <<"", "2", "x">>

\* C21: in every state, those left by a store failure between the two writes
\* of a submit or of a decision included, a queue entry whose status is not
\* IN_QUEUE has a Proofs row with its queue_id.
C21_StatusImpliesProof ==
  \A i \in 1..Len(queue) :
    queue[i].status # "IN_QUEUE" =>
      RowsWith(proofs, "queue_id", queue[i].queue_id) # {}

\* C21 witness: entry 1 was rejected on proof 1; the submit of proof 2 for
\* entry 2 failed after the row was appended, so entry 2 is still IN_QUEUE
\* with a PENDING proof (the converse does not hold).
C21_Witness ==
  /\ last = Reply("submit", "Error", 0)
  /\ Len(queue) = 2 /\ Len(proofs) = 2
  /\ queue[1].status = "REJECTED" /\ proofs[1].queue_id = queue[1].queue_id
  /\ queue[2].status = "IN_QUEUE" /\ proofs[2].queue_id = queue[2].queue_id
  /\ proofs[2].decision = "PENDING"

====
